---- MODULE Spec2Model ----
(***************************************************************************)
(* Capture / validate / print / confirm pipeline of the HMI balance        *)
(* reading desktop application: the three front ends (main_desktop_app,    *)
(* app_HW1, app_HW2), the serial sequencer and label printer of            *)
(* app/utils/qr_utils.py, the scan dialog, the hardware link and the       *)
(* camera frame cache.                                                     *)
(*                                                                         *)
(* Strings are sequences of one-character strings, so that strip(),        *)
(* upper(), zfill() and the numeric formats are computed, not assumed.     *)
(* Measured values are integers in thousandths of the displayed unit.      *)
(***************************************************************************)
EXTENDS Integers, Sequences, FiniteSets, TLC

\* ------------------------------------------------------------------ bounds
\* capture_reading activations started in one behaviour
MaxCycles == 2
\* last month index the wall clock reaches
MaxMonth == 2
\* commits in one behaviour of the sequencer specification
MaxCommits == 3
\* lines read from the controller in one behaviour of the link specification
MaxLines == 4
\* largest counter found in a state file left by an earlier session
MaxInitSerial == 2
\* largest frame width and height, in pixels
MaxFrame == 2
\* longest text handed to the OCR text cleaner
MaxText == 4
\* most calls of CameraService.start_camera
MaxStarts == 2
\* most device reads made by the capture loops together
MaxReads == 3
\* largest measured value tried on the limit checks
MaxValue == 3

\* ------------------------------------------------------------ text helpers
LowerLetters == <<"a","b","c","d","e","f","g","h","i","j","k","l","m",
                  "n","o","p","q","r","s","t","u","v","w","x","y","z">>
UpperLetters == <<"A","B","C","D","E","F","G","H","I","J","K","L","M",
                  "N","O","P","Q","R","S","T","U","V","W","X","Y","Z">>
DigitChars == <<"0","1","2","3","4","5","6","7","8","9">>

UpperMap == [c \in {LowerLetters[i] : i \in 1..26} |->
               UpperLetters[CHOOSE i \in 1..26 : LowerLetters[i] = c]]
LowerMap == [c \in {UpperLetters[i] : i \in 1..26} |->
               LowerLetters[CHOOSE i \in 1..26 : UpperLetters[i] = c]]

UpperChar(c) == IF c \in DOMAIN UpperMap THEN UpperMap[c] ELSE c

LowerChar(c) == IF c \in DOMAIN LowerMap THEN LowerMap[c] ELSE c

\* str.upper()
Upper(s) == [i \in 1..Len(s) |-> UpperChar(s[i])]

\* str.lower(), used only to build operator input
Lower(s) == [i \in 1..Len(s) |-> LowerChar(s[i])]

\* str.strip(): drop leading and trailing blanks
Strip(s) ==
  IF \A i \in 1..Len(s) : s[i] = " " THEN <<>>
  ELSE LET a == CHOOSE i \in 1..Len(s) :
                  s[i] # " " /\ \A j \in 1..(i-1) : s[j] = " "
           b == CHOOSE i \in 1..Len(s) :
                  s[i] # " " /\ \A j \in (i+1)..Len(s) : s[j] = " "
       IN SubSeq(s, a, b)

RECURSIVE Digits(_)
\* str(n) for n >= 0
Digits(n) == IF n < 10 THEN <<DigitChars[n + 1]>>
             ELSE Digits(n \div 10) \o <<DigitChars[(n % 10) + 1]>>

RECURSIVE ZFill(_, _)
\* str.zfill(w)
ZFill(s, w) == IF Len(s) >= w THEN s ELSE ZFill(<<"0">> \o s, w)

\* Python's None for a measured value
None == -1000000
\* self.current_part = None (no part selected); also the empty string
NoPart == <<>>

\* f"{v:.3f}" for v >= 0 given in thousandths
Fmt3(v) == Digits(v \div 1000) \o <<".">> \o ZFill(Digits(v % 1000), 3)

\* f"{v:.2f}" for v >= 0 given in thousandths (no value used is a tie)
Fmt2(v) == LET r == (v + 5) \div 10
           IN Digits(r \div 100) \o <<".">> \o ZFill(Digits(r % 100), 2)

NA == <<"N","/","A">>

\* datetime.now().strftime("%m%y") for the month index n (0 = January 2025)
MonthToken(n) == ZFill(Digits((n % 12) + 1), 2)
                   \o ZFill(Digits((25 + (n \div 12)) % 100), 2)

\* --------------------------------------------------------- configuration
\* the three front ends of the repository
Variants == {"main", "HW1", "HW2"}

Slots == {"angle1", "weight1", "angle2", "weight2"}

\* part codes as entered in the part table
P1 == <<"p", "1">>
P2 == <<"T", "2">>
AllParts == {P1, P2}

\* db.query(Part).all(): the first row of a non-empty part table
FirstPart(S) == IF P1 \in S THEN P1 ELSE P2

\* limits of the Part rows: P1 as the test part of test_limit_validation,
\* P2 as a part added by PartEditDialog (weights only, no lower bounds)
Limits(p) ==
  IF p = P1
  THEN [angle1  |-> [min |-> 5000, max |-> 15000],
        weight1 |-> [min |-> 2500, max |-> 4500],
        angle2  |-> [min |-> 5000, max |-> 15000],
        weight2 |-> [min |-> 2500, max |-> 4500]]
  ELSE [angle1  |-> [min |-> None, max |-> None],
        weight1 |-> [min |-> None, max |-> 4500],
        angle2  |-> [min |-> None, max |-> None],
        weight2 |-> [min |-> None, max |-> 4500]]

\* results of ocr_service.extract_balance_readings on a frame
ReadingSets ==
  { [angle1 |-> 10126, weight1 |-> 3000, angle2 |-> 10000, weight2 |-> 3500],
    [angle1 |-> 10126, weight1 |-> 5200, angle2 |-> 10000, weight2 |-> 3500],
    [angle1 |-> 3000,  weight1 |-> 3000, angle2 |-> 10000, weight2 |-> 3500],
    [angle1 |-> 10126, weight1 |-> 3000, angle2 |-> 10000, weight2 |-> None] }

\* ------------------------------------------------- serial sequencer file
AbsentFile == [kind |-> "absent", month |-> <<>>, serial |-> 0, last_part |-> <<>>]

StateFile(m, n, p) == [kind |-> "ok", month |-> m, serial |-> n, last_part |-> p]

\* _load_state
LoadState(f, month_now) ==
  IF f.kind = "ok" THEN f ELSE StateFile(month_now, 0, <<"X">>)

\* _save_state
SaveState(m, n, p) == StateFile(m, n, p)

\* a peek that ignores the month of the state file
GetCurrentSerialAndPartNoRollover(f, month_now, current_part) ==
  LET state == LoadState(f, month_now)
      hint == Upper(Strip(current_part))
      part_clean == IF hint # <<>> THEN hint
                    ELSE IF state.last_part # <<>> THEN state.last_part
                    ELSE <<"X">>
  IN <<ZFill(Digits(state.serial), 5), part_clean>>

\* get_current_serial_and_part: the peeked <<serial, part_code>>
GetCurrentSerialAndPart(f, month_now, current_part) ==
  LET state == LoadState(f, month_now)
      hint == Upper(Strip(current_part))
      part_clean == IF hint # <<>> THEN hint
                    ELSE IF state.last_part # <<>> THEN state.last_part
                    ELSE <<"X">>
      serial == IF state.month # month_now THEN 1 ELSE state.serial
  IN <<ZFill(Digits(serial), 5), part_clean>>

\* a peek that stores the rolled-over state it computed
PeekFileRollsOver(f, month_now, current_part) ==
  LET state == LoadState(f, month_now)
  IN IF state.month # month_now
     THEN SaveState(month_now, 1, state.last_part)
     ELSE f

\* get_current_serial_and_part: the state file after the call (the function
\* reads the file and has no _save_state call)
PeekFile(f, month_now, current_part) == f

\* a commit that counts on across a month change
IncrementSerialNoReset(f, month_now, part) ==
  LET state == LoadState(f, month_now)
      part_clean == Upper(Strip(IF part # <<>> THEN part ELSE state.last_part))
  IN SaveState(month_now, state.serial + 1, part_clean)

\* a commit computed from a fresh state instead of the stored one
IncrementSerialFromFresh(f, month_now, part) ==
  LET state == LoadState(f, month_now)
      part_clean == Upper(Strip(IF part # <<>> THEN part ELSE state.last_part))
  IN SaveState(month_now, 1, part_clean)

\* increment_serial: the state file after the commit
IncrementSerial(f, month_now, part) ==
  LET state == LoadState(f, month_now)
      part_clean == Upper(Strip(IF part # <<>> THEN part ELSE state.last_part))
      new_serial == IF state.month # month_now THEN 1 ELSE state.serial + 1
  IN SaveState(month_now, new_serial, part_clean)

\* a part selection that stamps the file with the current month
OnPartSelectedFileRestamp(f, month_now, part_code) ==
  LET state == LoadState(f, month_now)
  IN SaveState(month_now, state.serial, part_code)

\* a part selection that saves a zeroed counter
OnPartSelectedFileZeroCounter(f, month_now, part_code) ==
  LET state == LoadState(f, month_now)
  IN SaveState(state.month, 0, part_code)

\* on_part_selected: the state file after a part selection
OnPartSelectedFile(f, month_now, part_code) ==
  LET state == LoadState(f, month_now)
  IN SaveState(state.month, state.serial, part_code)

\* ----------------------------------------------------------- label data
FmtAngle(v) == IF v # None THEN Fmt2(v) ELSE NA
FmtWeight(v) == IF v # None THEN Fmt3(v) ELSE NA

\* f"{qr_value};{angle1};{weight1};{angle2};{weight2}"
Join5(qr_value, a1, w1, a2, w2) ==
  qr_value \o <<";">> \o a1 \o <<";">> \o w1 \o <<";">> \o a2 \o <<";">> \o w2

\* save_qr_image: the data encoded in the saved image
SaveQrImageData(qr_value, a1, w1, a2, w2) == Join5(qr_value, a1, w1, a2, w2)

\* print_zpl: outcomes of the printer transport
PrinterOutcomes == {"printed", "fallback_queue", "no_queue", "error"}
PrintZpl(outcome) == outcome \in {"printed", "fallback_queue"}

\* print_balance_readings: label data, result and state file afterwards
PrintBalanceReadings(f, month_now, part, r, outcome) ==
  LET sp == GetCurrentSerialAndPart(f, month_now, part)
      f1 == PeekFile(f, month_now, part)
      qr_value == sp[1] \o sp[2]
      a1 == FmtAngle(r.angle1)
      w1 == FmtWeight(r.weight1)
      a2 == FmtAngle(r.angle2)
      w2 == FmtWeight(r.weight2)
      qr_data == Join5(qr_value, a1, w1, a2, w2)
      success == PrintZpl(outcome)
  IN [success |-> success,
      qr_value |-> qr_value,
      printer_payload |-> IF outcome = "no_queue" THEN <<>> ELSE qr_data,
      image_payload |-> SaveQrImageData(qr_value, a1, w1, a2, w2),
      file |-> IF success THEN IncrementSerial(f1, month_now, part) ELSE f1]

\* the "expected" string built by capture_reading for the scan dialog
ExpectedScan(serial, part_code, r) ==
  Join5(serial \o part_code, Fmt2(r.angle1), Fmt3(r.weight1),
        Fmt2(r.angle2), Fmt3(r.weight2))

\* ----------------------------------------------------------- validation
Missing(r) == {m \in Slots : r[m] = None}

\* a weight-only front end that checks the angles after all
CheckedSlotsAll(v) == Slots

\* slots whose bounds capture_reading checks
CheckedSlots(v) == IF v = "main" THEN {"weight1", "weight2"} ELSE Slots

\* limit checks that look at the lower bound only
LimitsFailedLowOnly(v, r, lim) ==
  {<<m, "too low">> : m \in {x \in CheckedSlots(v) :
        r[x] # None /\ lim[x].min # None /\ r[x] < lim[x].min}}

\* limits_failed of capture_reading, as <<slot, side>> pairs
LimitsFailed(v, r, lim) ==
  {<<m, "too low">> : m \in {x \in CheckedSlots(v) :
        r[x] # None /\ lim[x].min # None /\ r[x] < lim[x].min}}
  \cup
  {<<m, "too high">> : m \in {x \in CheckedSlots(v) :
        r[x] # None /\ lim[x].max # None /\ r[x] > lim[x].max}}

\* capture_reading from "missing" to "is_valid": the limits are looked at
\* only when nothing is missing; the table shows all four values
Validate(v, r, lim) ==
  LET missing == Missing(r)
      limits_failed == IF missing = {} THEN LimitsFailed(v, r, lim) ELSE {}
  IN [is_valid |-> missing = {} /\ limits_failed = {},
      missing |-> missing,
      limits_failed |-> limits_failed,
      items |-> r]

\* measured values tried: None and 1..MaxValue
Values == {None} \cup (1..MaxValue)

\* bounds tried on a slot: each side absent or in the middle of the values,
\* and a crossed pair that a middle value violates on both sides
BoundPairs ==
  [min : {None, 2}, max : {None, 2}] \cup {[min |-> MaxValue, max |-> 1]}

\* ---------------------------------------------------- exception handling
\* a capture_reading without its outer "except Exception"
HandledInnerOnly(v, site) ==
  IF site = "store" /\ v # "HW1" THEN "StoreFailed" ELSE "Escaped"

\* how capture_reading ends when a collaborator raises at a call site:
\* "lookup" is the Part query (try/finally only), "store" is create_reading
\* (its own except in main_desktop_app and app_HW2, try/finally in app_HW1);
\* what is not caught there reaches the outer "except Exception"
Handled(v, site) ==
  IF site = "store" /\ v # "HW1" THEN "StoreFailed" ELSE "Error"

\* ------------------------------------------------------- hardware link
\* a link that releases the clamp after every result
ResultTokensAlwaysDeclamp(result_type) ==
  IF result_type = "PASS" THEN <<"OK", "DECLAMP">>
  ELSE IF result_type = "FAIL" THEN <<"FAIL", "DECLAMP">>
  ELSE IF result_type = "NO_FRAME" THEN <<"NO_FRAME", "DECLAMP">>
  ELSE <<>>

\* tokens send_HW_result writes for a result type on an open, live port
ResultTokens(result_type) ==
  IF result_type = "PASS" THEN <<"OK", "DECLAMP">>
  ELSE IF result_type = "FAIL" THEN <<"FAIL", "DECLAMP">>
  ELSE IF result_type = "NO_FRAME" THEN <<"NO_FRAME">>
  ELSE <<>>

\* a link that writes the release token before the result token
SendHWResultReleaseFirst(hw, result_type) ==
  LET t == ResultTokens(result_type)
  IN IF hw # "up" THEN <<>>
     ELSE IF Len(t) = 2 THEN <<t[2], t[1]>> ELSE t

\* send_HW_result: tokens reaching the wire for the link state hw
SendHWResult(hw, result_type) ==
  IF hw = "up" THEN ResultTokens(result_type) ELSE <<>>

\* ------------------------------------------------------------ frame crops
min(a, b) == IF a < b THEN a ELSE b

max(a, b) == IF a > b THEN a ELSE b

\* "frame is None"
NoneFrame == [width |-> 0, height |-> 0]

Frames == [width : 1..MaxFrame, height : 1..MaxFrame] \cup {NoneFrame}

\* an index of a slice over n elements, as Python normalises it: a negative
\* index counts from the end, and the result is clipped to 0..n
SliceIndex(i, n) ==
  IF i < 0 THEN max(0, i + n) ELSE min(i, n)

\* the crop frame[ya:yb, xa:xb]: an array, empty when a slice is empty
Crop(frame, xa, xb, ya, yb) ==
  LET x1 == SliceIndex(xa, frame.width)
      x2 == SliceIndex(xb, frame.width)
      y1 == SliceIndex(ya, frame.height)
      y2 == SliceIndex(yb, frame.height)
  IN [kind |-> IF x2 > x1 /\ y2 > y1 THEN "region" ELSE "empty",
      x1 |-> x1, x2 |-> x2, y1 |-> y1, y2 |-> y2]

NoCrop == [kind |-> "none", x1 |-> 0, x2 |-> 0, y1 |-> 0, y2 |-> 0]

\* CameraService.extract_roi: what is returned for a frame and a region
extract_roi(frame, x, y, w, h) ==
  IF frame = NoneFrame THEN NoCrop
  ELSE LET cx == max(0, min(x, frame.width - 1))
           cy == max(0, min(y, frame.height - 1))
           cw == min(w, frame.width - cx)
           ch == min(h, frame.height - cy)
       IN Crop(frame, cx, cx + cw, cy, cy + ch)

\* margin added around a configured region before it is read
pad == 8

\* OCRService.extract_balance_readings: the crop handed to the reader for
\* one configured region, or none when the reading is (None, 0.0) unread
extract_balance_readings(frame, x, y, w, h) ==
  IF frame = NoneFrame THEN NoCrop
  ELSE LET x1 == max(0, x - pad)
           y1 == max(0, y - pad)
           x2 == min(frame.width, x + w + pad)
           y2 == min(frame.height, y + h + pad)
           roi == Crop(frame, x1, x2, y1, y2)
       IN IF roi.kind = "region" THEN roi ELSE NoCrop

\* region coordinates tried on extract_roi: negative, inside, oversized
Coords == (0 - MaxFrame)..(MaxFrame + 1)

\* and on extract_balance_readings, where the margin shifts every edge
PadCoords == Coords \cup {c - pad : c \in Coords} \cup {c + pad : c \in Coords}

\* no crop made yet
NoRoi == [fn |-> "none", frame |-> NoneFrame, x |-> 0, y |-> 0, w |-> 0,
          h |-> 0, out |-> NoCrop]

\* ----------------------------------------------------------------- OCR text
\* characters kept by the pattern [^0-9.-]
NumericChars == {DigitChars[i] : i \in 1..10} \cup {".", "-"}

\* s.replace(c, '')
Without(s, c) == SelectSeq(s, LAMBDA d : d # c)

\* s.count(c)
Count(s, c) == Len(SelectSeq(s, LAMBDA d : d = c))

\* parts[0] + '.' + ''.join(parts[1:]) for parts = s.split('.')
JoinAfterFirstDot(s) ==
  LET k == CHOOSE i \in 1..Len(s) :
             s[i] = "." /\ \A j \in 1..(i-1) : s[j] # "."
  IN SubSeq(s, 1, k) \o Without(SubSeq(s, k + 1, Len(s)), ".")

\* a cleaner that leaves '-' alone unless the text begins with one
CleanKeepsInteriorMinus(text) ==
  IF text = <<>> THEN <<>>
  ELSE LET kept == SelectSeq(Strip(text), LAMBDA c : c \in NumericChars)
           cleaned == IF Count(kept, ".") > 1 THEN JoinAfterFirstDot(kept)
                      ELSE kept
       IN IF Count(cleaned, "-") > 0 /\ cleaned[1] = "-"
          THEN <<"-">> \o Without(Tail(cleaned), "-")
          ELSE cleaned

\* OCRService._clean_numeric_text
clean_numeric_text(text) ==
  IF text = <<>> THEN <<>>
  ELSE LET kept == SelectSeq(Strip(text), LAMBDA c : c \in NumericChars)
           cleaned == IF Count(kept, ".") > 1 THEN JoinAfterFirstDot(kept)
                      ELSE kept
       IN IF Count(cleaned, "-") > 0
          THEN IF cleaned[1] = "-"
               THEN <<"-">> \o Without(Tail(cleaned), "-")
               ELSE Without(cleaned, "-")
          ELSE cleaned

\* characters of the texts tried: a digit, the two signs, a letter, a blank
OcrAlphabet == {"7", ".", "-", "x", " "}

RECURSIVE TextsUpTo(_)
TextsUpTo(n) ==
  IF n = 0 THEN {<<>>}
  ELSE LET shorter == TextsUpTo(n - 1)
       IN shorter \cup {t \o <<c>> : t \in shorter, c \in OcrAlphabet}

OcrTexts == TextsUpTo(MaxText)

\* float(text) returns a number rather than raising ValueError, for a text
\* over digits, '.', '-', letters and blanks: an optional leading '-',
\* then digits with at most one '.', at least one digit
ParsesAsFloat(text) ==
  LET t == Strip(text)
      body == IF t # <<>> /\ t[1] = "-" THEN Tail(t) ELSE t
  IN /\ \A i \in 1..Len(body) :
          body[i] = "." \/ body[i] \in {DigitChars[k] : k \in 1..10}
     /\ Count(body, ".") <= 1
     /\ \E i \in 1..Len(body) : body[i] # "."

\* settings.OCR_CONFIDENCE_THRESHOLD, in tenths
OCR_CONFIDENCE_THRESHOLD == 5

\* confidences tried, in tenths: none, around the threshold, full
Confidences == {0, OCR_CONFIDENCE_THRESHOLD - 1, OCR_CONFIDENCE_THRESHOLD,
                OCR_CONFIDENCE_THRESHOLD + 1, 10}

\* OCRService.extract_text_easyocr; engine is what readtext did: "raise",
\* "noresult" (empty list) or "result" with the best text and confidence
extract_text_easyocr(engine, text, confidence) ==
  IF engine = "result"
  THEN [text |-> clean_numeric_text(text), confidence |-> confidence]
  ELSE [text |-> <<>>, confidence |-> 0]

\* a recogniser that parses whatever confidence the engine reports
ExtractNumericValueAnyConfidence(region, engine, text, confidence) ==
  IF region \in {"none", "empty"}
  THEN [null |-> TRUE, text |-> <<>>, confidence |-> 0]
  ELSE LET r == extract_text_easyocr(engine, text, confidence)
       IN IF r.text # <<>> /\ ParsesAsFloat(r.text)
          THEN [null |-> FALSE, text |-> r.text, confidence |-> r.confidence]
          ELSE [null |-> TRUE, text |-> <<>>, confidence |-> r.confidence]

\* OCRService.extract_numeric_value; region is the image handed in: "none",
\* "empty" (size 0) or "ok". A value that is not None is kept as its text.
extract_numeric_value(region, engine, text, confidence) ==
  IF region \in {"none", "empty"}
  THEN [null |-> TRUE, text |-> <<>>, confidence |-> 0]
  ELSE LET r == extract_text_easyocr(engine, text, confidence)
       IN IF r.text # <<>> /\ r.confidence >= OCR_CONFIDENCE_THRESHOLD
          THEN IF ParsesAsFloat(r.text)
               THEN [null |-> FALSE, text |-> r.text,
                     confidence |-> r.confidence]
               ELSE [null |-> TRUE, text |-> <<>>,
                     confidence |-> r.confidence]
          ELSE [null |-> TRUE, text |-> <<>>, confidence |-> r.confidence]

\* ------------------------------------------- contents of the state file
\* a JSON value: t is "missing" (no such key), "null", "int" or "str"
Json(t, n, str) == [t |-> t, n |-> n, s |-> str]

JMissing == Json("missing", 0, <<>>)

JNull == Json("null", 0, <<>>)

JInt(n) == Json("int", n, <<>>)

JStr(str) == Json("str", 0, str)

\* what serial_state.json holds: kind is "absent" (no file), "unreadable"
\* (json.load raises) or "json"; a JSON document is a dict of the three
\* keys, each possibly missing, or something that is not a dict
Content(kind, isdict, month, serial, last_part) ==
  [kind |-> kind, isdict |-> isdict, month |-> month, serial |-> serial,
   last_part |-> last_part]

\* the dict _load_state returns when there is no file or json.load raises
FreshState(month_now) ==
  Content("json", TRUE, JStr(month_now), JInt(0), JStr(<<"X">>))

NoContent == Content("absent", FALSE, JMissing, JMissing, JMissing)

Unreadable == Content("unreadable", FALSE, JMissing, JMissing, JMissing)

NotADict == Content("json", FALSE, JMissing, JMissing, JMissing)

\* files tried: none, unreadable, a list, and dicts with every mix of
\* missing, null, well-typed and ill-typed values
Contents ==
  {NoContent, Unreadable, NotADict} \cup
  { Content("json", TRUE, m, n, p) :
      m \in {JMissing, JStr(MonthToken(0)), JStr(MonthToken(1))},
      n \in {JMissing, JNull, JInt(0), JInt(MaxInitSerial),
             JStr(<<"7">>), JStr(<<"a">>)},
      p \in {JMissing, JNull, JStr(<<>>), JStr(<<"P", "1">>)} }

\* _load_state on the file as it is
load_state(content, month_now) ==
  IF content.kind = "json" THEN content ELSE FreshState(month_now)

\* dict.get(key, default) on a loaded dict
Get(j, default) == IF j.t = "missing" THEN default ELSE j

\* int(x): a record with ok = FALSE stands for ValueError / TypeError
PyInt(j) ==
  IF j.t = "int" THEN [ok |-> TRUE, n |-> j.n]
  ELSE IF /\ j.t = "str"
          /\ Len(j.s) = 1
          /\ \E k \in 1..10 : DigitChars[k] = j.s[1]
       THEN [ok |-> TRUE, n |-> (CHOOSE k \in 1..10 : DigitChars[k] = j.s[1]) - 1]
       ELSE [ok |-> FALSE, n |-> 0]

\* get_current_serial_and_part on the file as it is; raised stands for an
\* exception leaving the function
PeekOn(content, month_now, current_part) ==
  LET state == load_state(content, month_now)
      hint == Upper(Strip(current_part))
      lp == Get(state.last_part, JStr(<<"X">>))
      part_clean == IF hint # <<>> THEN hint
                    ELSE IF lp.t = "str" /\ lp.s # <<>> THEN lp.s
                    ELSE <<"X">>
      rolled == Get(state.month, JNull) # JStr(month_now)
      n == PyInt(Get(state.serial, JInt(0)))
  IN IF ~state.isdict \/ (~rolled /\ ~n.ok)
     THEN [raised |-> TRUE, serial |-> <<>>, part_code |-> <<>>]
     ELSE [raised |-> FALSE,
           serial |-> ZFill(Digits(IF rolled THEN 1 ELSE n.n), 5),
           part_code |-> part_clean]

\* increment_serial on the file as it is; write_ok tells whether the open
\* and json.dump of _save_state go through
CommitOn(content, month_now, part, write_ok) ==
  LET state == load_state(content, month_now)
      lp == Get(state.last_part, JStr(<<"X">>))
      rolled == Get(state.month, JNull) # JStr(month_now)
      n == PyInt(Get(state.serial, JInt(0)))
  IN IF \/ ~state.isdict
        \/ (part = <<>> /\ lp.t # "str")
        \/ (~rolled /\ ~n.ok)
     THEN [raised |-> TRUE, reported |-> FALSE, content |-> content]
     ELSE IF ~write_ok
     THEN [raised |-> FALSE, reported |-> TRUE, content |-> content]
     ELSE [raised |-> FALSE, reported |-> FALSE,
           content |->
             Content("json", TRUE, JStr(month_now),
                     JInt(IF rolled THEN 1 ELSE n.n + 1),
                     JStr(Upper(Strip(IF part # <<>> THEN part ELSE lp.s))))]

\* the configured print queue
PRINTER_NAME == "TSC TE210"

\* results of Zebra().getqueues(): up to two queues, the configured one
\* among them or not
QueueLists ==
  LET names == {PRINTER_NAME, "Other A", "Other B"}
  IN {<<>>} \cup {<<a>> : a \in names}
           \cup {q \in names \X names : q[1] # q[2]}

\* print_zpl: queues is what getqueues() returns, getqueues_ok and output_ok
\* tell whether those calls return rather than raise, file_ok whether the
\* fallback file can be written. attempted: z.output was called;
\* fallback_file: the command was written to label_<timestamp>.zpl
print_zpl(queues, getqueues_ok, output_ok, file_ok) ==
  IF ~getqueues_ok
  THEN [printed |-> FALSE, queue |-> "", attempted |-> FALSE,
        fallback_file |-> file_ok]
  ELSE LET printer_to_use ==
             IF \E i \in 1..Len(queues) : queues[i] = PRINTER_NAME
             THEN PRINTER_NAME
             ELSE IF queues # <<>> THEN queues[1] ELSE ""
       IN IF printer_to_use = ""
          THEN [printed |-> FALSE, queue |-> "", attempted |-> FALSE,
                fallback_file |-> FALSE]
          ELSE IF output_ok
          THEN [printed |-> TRUE, queue |-> printer_to_use,
                attempted |-> TRUE, fallback_file |-> FALSE]
          ELSE [printed |-> FALSE, queue |-> printer_to_use,
                attempted |-> TRUE, fallback_file |-> file_ok]

\* no service function called yet
NoFn == [fn |-> "none", arg |-> <<>>, out |-> <<>>]

\* ------------------------------------------------------------------- camera
\* CameraService after __init__: no device, no thread, no frame
NoCam == [is_running |-> FALSE, cap |-> "none", devices |-> 0,
          threads |-> <<>>, current_frame |-> 0, reads |-> 0,
          stopped |-> FALSE, got |-> -1, ret |-> "none", op |-> "none"]

\* a capture thread at the top of its while loop
NewThread == [pc |-> "top", failed |-> FALSE, after |-> 0]

\* capture threads that have not left _capture_loop
LiveThreads(c) == {t \in 1..Len(c.threads) : c.threads[t].pc # "exited"}

\* ------------------------------------------------------------------ state
VARIABLES
  variant,       \* which front end is running
  file,          \* serial_state.json
  now,           \* wall clock, as a month index
  current_part,  \* HMIDesktopApp.current_part
  parts,         \* part codes in the parts table and in part_combo
  frameCached,   \* camera_service.current_frame is not None
  hw,            \* HW_serial: "none" (not connected), "up" (port open)
  started,       \* capture_reading activations started so far
  stack,         \* active capture_reading activations, innermost last
  seq,           \* last call made to the serial sequencer on its own
  link,          \* the listen_HW thread: last line read, events raised
  roi,           \* last crop made: the function, its inputs, its result
  call,          \* last call of a service function: its input and result
  cam            \* CameraService: device, capture threads, frame cache

vars == <<variant, file, now, current_part, parts, frameCached,
          hw, started, stack, seq, link, roi, call, cam>>

\* QRScanDialog before exec_: input empty, no result
NewDialog == [text |-> <<>>, success |-> FALSE, result |-> "none",
              rejectPending |-> FALSE]

\* locals of one capture_reading activation, with its observable effects
NewActivation(f) ==
  [pc |-> "pe1", before |-> f, after |-> f, frame |-> FALSE,
   r |-> [m \in Slots |-> None], missing |-> {}, limits_failed |-> {},
   part_ok |-> FALSE, part_found |-> FALSE, part_used |-> NoPart,
   frame_saved |-> FALSE,
   serial |-> <<>>, part_code |-> <<>>,
   qr_printed |-> FALSE, print_tried |-> FALSE,
   printer_payload |-> <<>>, image_payload |-> <<>>, expected |-> <<>>,
   gate_opened |-> FALSE, dlg |-> NewDialog,
   sent |-> <<>>, wire |-> <<>>, wrote |-> FALSE, stored |-> 0,
   nested |-> FALSE,
   outcome |-> "running"]

\* state files an earlier session can have left behind
InitFiles ==
  { AbsentFile,
    StateFile(MonthToken(0), MaxInitSerial, <<"X">>),
    StateFile(MonthToken(1), 0, <<"X">>),
    StateFile(MonthToken(1), MaxInitSerial, Upper(P1)) }

\* listen_HW has read no line yet
NoLine == [running |-> TRUE, line |-> <<>>, raised |-> 0, total |-> 0,
           pending |-> 0, sends |-> 0, asked |-> "none", wire |-> <<>>,
           HW_running |-> TRUE, pc |-> "top", closing |-> FALSE,
           closed |-> FALSE, stale |-> 0, dead |-> FALSE]

\* no sequencer call made yet
\* (committed: the part code of the last commit made for a part; since:
\* what has written last_part since then; hint: the hint of the last peek;
\* label: the serial of the last label printed, a peek followed by a
\* commit in the month label_month; label_before: the serial of the label
\* printed before it in the same month)
NoCall == [op |-> "none", prev |-> AbsentFile, month |-> <<>>,
           serial |-> <<>>, part_code |-> <<>>, commits |-> 0,
           hint |-> <<>>, committed |-> <<>>, since |-> "none",
           label |-> <<>>, label_month |-> <<>>, label_before |-> <<>>]

\* HMIDesktopApp.__init__: services started, parts loaded, last part selected
Init ==
  /\ variant \in Variants
  /\ now = 1
  /\ parts \in {{}, AllParts}
  /\ \E f0 \in InitFiles :
       IF parts = {}
       THEN /\ current_part = NoPart
            /\ file = f0
       ELSE /\ current_part = FirstPart(parts)
            /\ file = OnPartSelectedFile(f0, MonthToken(now), current_part)
  /\ frameCached = FALSE
  /\ hw \in {"up", "none"}
  /\ started = 0
  /\ stack = <<>>
  /\ seq = NoCall
  /\ link = NoLine
  /\ roi = NoRoi
  /\ call = NoFn
  /\ cam = NoCam

Depth == Len(stack)
Top == stack[Depth]

\* positions at which the activation has called QApplication.processEvents
PePcs == {"pe1", "pe2", "pe3"}

\* the Qt event loop of the GUI thread is dispatching events
EventLoopRunning ==
  IF Depth = 0 THEN TRUE
  ELSE \/ (Top.pc = "scan" /\ Top.dlg.result = "none")
       \/ (variant # "HW1" /\ Top.pc \in PePcs)

\* a QRScanDialog is open (application modal): the main window gets no input
DialogOpen(a) == a.pc = "scan" /\ a.dlg.result = "none"
MainWindowEnabled == \A i \in 1..Depth : ~DialogOpen(stack[i])

\* the activation with the input focus: the innermost open dialog
FocusIndex ==
  IF \E i \in 1..Depth : DialogOpen(stack[i])
  THEN CHOOSE i \in 1..Depth :
         DialogOpen(stack[i]) /\ \A j \in (i+1)..Depth : ~DialogOpen(stack[j])
  ELSE 0

\* the activation a records one send_HW_result call
Send(a, result_type) ==
  [a EXCEPT !.sent = Append(@, result_type),
            !.wire = @ \o SendHWResult(hw, result_type)]

\* capture_reading has reached its end or a return statement
Finish(a, outcome) ==
  stack' = [stack EXCEPT ![Depth] =
              [a EXCEPT !.pc = "done", !.outcome = outcome, !.after = file']]

SetTop(a) == stack' = [stack EXCEPT ![Depth] = a]

\* --------------------------------------------------------- other threads
\* CameraService._capture_loop stores a frame in the cache (Capture is
\* the only reader: a frame stored at any other moment is seen by it as
\* one stored just before it runs)
CameraFrame ==
  /\ ~frameCached
  /\ IF Depth = 0 THEN TRUE ELSE Top.pc = "pe1"
  /\ frameCached' = TRUE
  /\ UNCHANGED <<variant, link, roi, call, cam, seq, file, now, current_part, parts,
                 hw, started, stack>>

\* ------------------------------------------------------------ GUI events
\* on_part_selected, from a user selection in part_combo
OnPartSelected(p) ==
  /\ EventLoopRunning
  /\ MainWindowEnabled
  /\ p \in parts
  /\ p # current_part
  /\ current_part' = p
  /\ file' = OnPartSelectedFile(file, MonthToken(now), p)
  /\ UNCHANGED <<variant, link, roi, call, cam, seq, now, parts, frameCached, hw,
                 started, stack>>

\* PartManagementDialog.delete_part and its Close button, after which
\* open_part_management reloads the combo box (load_parts selects the
\* first row; with no row left current_part keeps the deleted code)
DeletePart(p) ==
  /\ Depth = 0
  /\ p \in parts
  /\ parts' = parts \ {p}
  /\ IF parts' # {}
     THEN /\ current_part' = FirstPart(parts')
          /\ file' = OnPartSelectedFile(file, MonthToken(now), FirstPart(parts'))
     ELSE UNCHANGED <<current_part, file>>
  /\ UNCHANGED <<variant, link, roi, call, cam, seq, now, frameCached, hw, started, stack>>

\* capture_reading is entered: the manual button (src = "manual"), or
\* listen_HW has read a line with the trigger token and the queued
\* hw_capture_signal is delivered (src = "hw"); runs up to the first
\* processEvents call
StartCycle(src) ==
  /\ started < MaxCycles
  /\ EventLoopRunning
  /\ IF src = "hw" THEN hw = "up" ELSE MainWindowEnabled
  /\ started' = started + 1
  /\ stack' = Append([i \in 1..Depth |-> [stack[i] EXCEPT !.nested = TRUE]],
                     [NewActivation(file) EXCEPT !.nested = (Depth > 0)])
  /\ UNCHANGED <<variant, link, roi, call, cam, seq, file, now, current_part, parts,
                 frameCached, hw>>

\* capture_reading from get_current_frame to the table update: frame fetch,
\* OCR, missing values, part lookup and limit checks
Capture ==
  /\ Depth > 0
  /\ Top.pc = "pe1"
  /\ UNCHANGED <<variant, link, roi, call, cam, seq, file, now, current_part, parts,
                 frameCached, hw, started>>
  /\ IF ~frameCached
     THEN Finish(Send(Top, "NO_FRAME"), "NoFrame")
     ELSE \E r \in ReadingSets :
       LET missing == Missing(r)
           lookup == missing = {} /\ current_part # NoPart
           found == lookup /\ current_part \in parts
           a == [Top EXCEPT !.frame = TRUE, !.r = r, !.missing = missing,
                            !.part_ok = (current_part # NoPart /\ current_part \in parts),
                            !.part_found = found,
                            !.part_used = IF found THEN current_part ELSE NoPart,
                            !.limits_failed =
                               IF found THEN LimitsFailed(variant, r, Limits(current_part))
                               ELSE {}]
       IN IF variant # "HW1" /\ lookup /\ ~found
          THEN \E raised \in BOOLEAN :
                 Finish(a, IF raised THEN Handled(variant, "lookup")
                           ELSE "PartNotFound")
          ELSE IF variant # "HW1" /\ ~lookup /\ current_part = NoPart
          THEN Finish(a, "NoPart")
          ELSE /\ SetTop([a EXCEPT !.pc = "pe2"])

\* capture_reading from is_valid to the "printing QR" status: the frame
\* is saved, an invalid reading is reported with FAIL
Judge ==
  /\ Depth > 0
  /\ Top.pc = "pe2"
  /\ UNCHANGED <<variant, link, roi, call, cam, seq, file, now, current_part, parts,
                 frameCached, hw, started>>
  /\ LET is_valid == Top.missing = {} /\ Top.limits_failed = {}
         a == [Top EXCEPT !.frame_saved = TRUE]
     IN IF ~is_valid
        THEN Finish(Send(a, "FAIL"), "Invalid")
        ELSE /\ SetTop([a EXCEPT !.pc = "pe3"])

\* capture_reading: serial, part_code = get_current_serial_and_part(...)
Peek ==
  /\ Depth > 0
  /\ Top.pc = "pe3"
  /\ LET sp == GetCurrentSerialAndPart(file, MonthToken(now), current_part)
     IN SetTop([Top EXCEPT !.pc = "print", !.serial = sp[1], !.part_code = sp[2]])
  /\ file' = PeekFile(file, MonthToken(now), current_part)
  /\ UNCHANGED <<variant, link, roi, call, cam, seq, now, current_part, parts,
                 frameCached, hw, started>>

\* capture_reading: print_balance_readings, then the scan dialog is built
\* and exec_ entered, or the print failure is shown
PrintLabel(outcome) ==
  /\ Depth > 0
  /\ Top.pc = "print"
  /\ LET part == IF current_part # NoPart THEN current_part ELSE <<"U","n","k","n","o","w","n">>
         res == PrintBalanceReadings(file, MonthToken(now), part, Top.r, outcome)
         a == [Top EXCEPT !.print_tried = TRUE,
                          !.qr_printed = res.success,
                          !.printer_payload = res.printer_payload,
                          !.image_payload = res.image_payload,
                          !.wrote = res.success]
     IN /\ file' = res.file
        /\ IF res.success
           THEN /\ SetTop([a EXCEPT !.pc = "scan", !.gate_opened = TRUE,
                                    !.expected = Strip(ExpectedScan(Top.serial, Top.part_code, Top.r))])
            ELSE Finish(a, "PrintFailed")
  /\ UNCHANGED <<variant, link, roi, call, cam, seq, now, current_part, parts,
                 frameCached, hw, started>>

\* ---------------------------------------------------------- scan dialog
\* what an operator can put into the scan box of the dialog of a: the data
\* on the printed label, the expected text in lower case behind a blank,
\* a wrong text, a blank
ScanTexts(a) ==
  {a.printer_payload, <<" ">> \o Lower(a.expected), <<"0">>, <<" ">>}

\* a dialog that compares the scanned text as typed
CheckScanExact(d, expected, t) ==
  IF Strip(t) = <<>> THEN [d EXCEPT !.text = t]
  ELSE IF t = expected
  THEN [d EXCEPT !.text = t, !.success = TRUE, !.result = "Accepted"]
  ELSE [d EXCEPT !.text = t, !.rejectPending = TRUE]

\* a dialog that accepts whatever is scanned
CheckScanAcceptsAny(d, expected, t) ==
  LET text == Strip(t)
  IN IF text = <<>> THEN [d EXCEPT !.text = t]
     ELSE [d EXCEPT !.text = t, !.success = TRUE, !.result = "Accepted"]

\* QRScanDialog.check_scan (the later definition in the class body, which
\* is the one bound to the method name) on input text t
CheckScan(d, expected, t) ==
  LET text == Strip(t)
      expected_clean == Upper(Strip(expected))
      scanned_clean == Upper(Strip(text))
  IN IF text = <<>> THEN [d EXCEPT !.text = t]
     ELSE IF expected_clean = scanned_clean
     THEN [d EXCEPT !.text = t, !.success = TRUE, !.result = "Accepted"]
     ELSE [d EXCEPT !.text = t, !.rejectPending = TRUE]

\* input_edit.textChanged of the dialog with the focus
ScanInput ==
  /\ EventLoopRunning
  /\ FocusIndex # 0
  /\ LET i == FocusIndex
         a == stack[i]
     IN \E t \in ScanTexts(a) :
          /\ t # a.dlg.text
          /\ stack' = [stack EXCEPT ![i].dlg = CheckScan(a.dlg, a.expected, t)]
  /\ UNCHANGED <<variant, link, roi, call, cam, seq, file, now, current_part, parts,
                 frameCached, hw, started>>

\* QRScanDialog.check_timeout, called by timeout_timer (not started by the
\* dialog of app_HW1)
CheckTimeout(i) ==
  /\ EventLoopRunning
  /\ variant # "HW1"
  /\ i \in 1..Depth
  /\ stack[i].pc = "scan"
  /\ ~stack[i].dlg.success
  /\ ~stack[i].dlg.rejectPending
  /\ stack' = [stack EXCEPT ![i].dlg.rejectPending = TRUE]
  /\ UNCHANGED <<variant, link, roi, call, cam, seq, file, now, current_part, parts,
                 frameCached, hw, started>>

\* the QTimer.singleShot(100000, self.reject) of check_scan / check_timeout
RejectFires(i) ==
  /\ EventLoopRunning
  /\ i \in 1..Depth
  /\ stack[i].pc = "scan"
  /\ stack[i].dlg.rejectPending
  /\ stack' = [stack EXCEPT ![i].dlg.rejectPending = FALSE,
                            ![i].dlg.result = "Rejected"]
  /\ UNCHANGED <<variant, link, roi, call, cam, seq, file, now, current_part, parts,
                 frameCached, hw, started>>

\* a store block that reports PASS before it stores the reading
StoreBlockPassFirst(a, created) ==
  IF created
  THEN [Send(a, "PASS") EXCEPT !.stored = @ + 1]
  ELSE IF Handled(variant, "store") = "StoreFailed"
       THEN Send(Send(a, "PASS"), "FAIL")
       ELSE Send(a, "PASS")

\* a store block that reports the failure from its finally clause
StoreBlockFailInFinally(a, created) ==
  IF created
  THEN Send(Send([a EXCEPT !.stored = @ + 1], "PASS"), "FAIL")
  ELSE IF Handled(variant, "store") = "StoreFailed"
       THEN Send(a, "FAIL")
       ELSE a

\* the store block after a confirmed scan: create_reading and db.commit,
\* then send_HW_result('PASS'); when they raise (created = FALSE) the
\* except clause of main_desktop_app and app_HW2 sends FAIL, app_HW1 has
\* no except clause there
StoreBlock(a, created) ==
  IF created
  THEN Send([a EXCEPT !.stored = @ + 1], "PASS")
  ELSE IF Handled(variant, "store") = "StoreFailed"
       THEN Send(a, "FAIL")
       ELSE a

\* capture_reading after dialog.exec_ returned: store and PASS on a
\* confirmed scan, otherwise the failure is shown
ScanReturn ==
  /\ Depth > 0
  /\ Top.pc = "scan"
  /\ Top.dlg.result # "none"
  /\ UNCHANGED <<variant, link, roi, call, cam, seq, file, now, current_part, parts,
                 frameCached, hw, started>>
  /\ IF Top.dlg.result = "Accepted" /\ Top.dlg.success
     THEN \E created \in BOOLEAN :
            Finish(StoreBlock(Top, created),
                   IF created THEN "Committed" ELSE Handled(variant, "store"))
     ELSE Finish(Top, "ScanFailed")

\* capture_reading returns to the event loop that called it
Return ==
  /\ Depth > 0
  /\ Top.pc = "done"
  /\ stack' = SubSeq(stack, 1, Depth - 1)
  /\ UNCHANGED <<variant, link, roi, call, cam, seq, file, now, current_part, parts, frameCached,
                 hw, started>>

\* ------------------------------------------------------- specification
Next ==
  \/ CameraFrame
  \/ \E p \in AllParts : OnPartSelected(p)
  \/ \E p \in AllParts : DeletePart(p)
  \/ \E src \in {"hw", "manual"} : StartCycle(src)
  \/ Capture
  \/ Judge
  \/ Peek
  \/ \E outcome \in PrinterOutcomes : PrintLabel(outcome)
  \/ ScanInput
  \/ \E i \in 1..MaxCycles : CheckTimeout(i)
  \/ \E i \in 1..MaxCycles : RejectFires(i)
  \/ ScanReturn
  \/ Return

Spec == Init /\ [][Next]_vars

\* ------------------------------------------- one cycle at a time, fair
\* the steps of Next that leave at most one activation on the stack
NextGate == Next /\ Len(stack') <= 1

\* the timers of a scan dialog, fired by Qt while an event loop runs
GateTimers ==
  /\ \E i \in 1..MaxCycles : CheckTimeout(i) \/ RejectFires(i)
  /\ Len(stack') <= 1

\* a due timer fires and a closed dialog returns from exec_; the operator
\* and the triggers are under no obligation
SpecGate ==
  Init /\ [][NextGate]_vars /\ WF_vars(GateTimers) /\ WF_vars(ScanReturn)

\* C15: an open scan gate that gets no matching input is eventually closed
\* by its timeout, so that its cycle ends and no gate stays open.
C15_GateEventuallyCloses ==
  (Depth = 1 /\ DialogOpen(stack[1]))
    ~> (Depth = 0 \/ stack[1].pc = "done")

\* ------------------------------------------------- claims on the pipeline

\* C1: a cycle whose label was printed and whose scan gate ended without a
\* match leaves the state file exactly as it was when the cycle began, and
\* stores no reading.
C1_ScanFailureLeavesNoTrace ==
  \A i \in 1..Depth :
    (stack[i].pc = "done" /\ stack[i].qr_printed /\ ~stack[i].dlg.success)
      => /\ stack[i].after = stack[i].before
         /\ stack[i].stored = 0

\* C2: at most one capture cycle is in flight: no capture_reading starts
\* while another has not reached its end.
C2_OneCycleInFlight ==
  Cardinality({i \in 1..Depth : stack[i].pc # "done"}) <= 1

\* C3: whenever the scan gate is opened, the value it expects is the
\* payload sent to the printer and the payload of the saved image.
C3_PayloadIdentity ==
  \A i \in 1..Depth :
    stack[i].gate_opened
      => /\ stack[i].expected = stack[i].printer_payload
         /\ stack[i].expected = stack[i].image_payload

\* C4: a cycle has stored a reading only after its scan gate matched the
\* scanned text with the expected value; a cycle that ended with no frame,
\* an invalid reading, a failed print or a failed scan has stored nothing.
C4_StoreOnlyAfterMatch ==
  \A i \in 1..Depth :
    /\ stack[i].stored > 0
         => /\ stack[i].gate_opened
            /\ stack[i].dlg.success
            /\ Upper(Strip(stack[i].dlg.text)) = Upper(Strip(stack[i].expected))
    /\ stack[i].outcome \in {"NoFrame", "Invalid", "NoPart", "PartNotFound",
                             "PrintFailed", "ScanFailed"}
         => stack[i].stored = 0

\* a cycle has ended after storing its reading
C4_Witness ==
  \E i \in 1..Depth :
    /\ stack[i].pc = "done"
    /\ stack[i].outcome = "Committed"
    /\ stack[i].stored = 1

\* C5: a cycle in which all four values are read within the limits of the
\* selected part, the print succeeds and the scan matches ends Committed:
\* the stored serial is exactly one more than before the cycle, one reading
\* is stored, and the link receives OK then DECLAMP.  Stated for the cycles
\* the claim can be about at all: the link is up, the state file is of the
\* current month and the database accepted the row.
C5_AllOkCommitsOnce ==
  \A i \in 1..Depth :
    LET a == stack[i]
    IN (/\ a.pc = "done"
        /\ a.missing = {} /\ a.part_found /\ a.limits_failed = {}
        /\ a.qr_printed
        /\ a.dlg.success /\ a.dlg.result = "Accepted"
        /\ a.outcome \notin {"StoreFailed", "Error"}
        /\ hw = "up"
        /\ a.before.kind = "ok" /\ a.before.month = MonthToken(now))
       => /\ a.outcome = "Committed"
          /\ a.after.kind = "ok"
          /\ a.after.month = a.before.month
          /\ a.after.serial = a.before.serial + 1
          /\ a.stored = 1
          /\ a.wire = <<"OK", "DECLAMP">>

\* C6: a cycle that has a frame and in which a value is missing or a
\* checked bound is violated ends as invalid: FAIL is sent, no print is
\* attempted, the state file is not written and nothing is stored.
C6_InvalidSendsFail ==
  \A i \in 1..Depth :
    LET a == stack[i]
    IN (a.pc = "done" /\ a.frame /\ (a.missing # {} \/ a.limits_failed # {}))
       => /\ a.outcome \in {"Invalid", "NoPart", "PartNotFound"}
          /\ a.sent = <<"FAIL">>
          /\ ~a.print_tried
          /\ ~a.wrote
          /\ a.stored = 0

C12_NoPartNeverPrints ==
  \A i \in 1..Depth :
    LET a == stack[i]
    IN (a.frame /\ ~a.part_ok)
       => /\ ~a.print_tried
          /\ ~a.wrote
          /\ ~a.gate_opened
          /\ a.stored = 0
          /\ a.pc = "done" => a.outcome \in {"Invalid", "NoPart", "PartNotFound"}

\* C13: a cycle that reached the print and ended PrintFailed has sent FAIL
\* (on a connected link written as FAIL then DECLAMP), has opened no scan
\* gate, has not written the state file and has stored nothing.
C13_PrintFailedSendsFail ==
  \A i \in 1..Depth :
    LET a == stack[i]
    IN (a.pc = "done" /\ a.print_tried /\ a.outcome = "PrintFailed")
       => /\ a.sent = <<"FAIL">>
          /\ hw = "up" => a.wire = <<"FAIL", "DECLAMP">>
          /\ ~a.gate_opened
          /\ ~a.wrote
          /\ a.stored = 0

\* C14: on a connected link a PASS result is written as OK then DECLAMP, a
\* FAIL result as FAIL then DECLAMP and a NO_FRAME result as NO_FRAME alone,
\* and nothing else is written.
C14_TokensOnConnectedLink ==
  \A i \in 1..Depth :
    hw = "up"
      => \/ stack[i].sent = <<>> /\ stack[i].wire = <<>>
         \/ stack[i].sent = <<"PASS">> /\ stack[i].wire = <<"OK", "DECLAMP">>
         \/ stack[i].sent = <<"FAIL">> /\ stack[i].wire = <<"FAIL", "DECLAMP">>
         \/ stack[i].sent = <<"NO_FRAME">> /\ stack[i].wire = <<"NO_FRAME">>

\* an invalid reading was reported on a connected link
C14_Witness ==
  \E i \in 1..Depth :
    /\ hw = "up"
    /\ stack[i].outcome = "Invalid"
    /\ stack[i].sent = <<"FAIL">>
    /\ stack[i].wire = <<"FAIL", "DECLAMP">>

\* C16: after a scan input that does not match, the gate has either cleared
\* the input and kept waiting, or failed the cycle at once: no gate is
\* waiting with a mismatched input still in its scan box.
C16_NoRetainedMismatch ==
  \A i \in 1..Depth :
    DialogOpen(stack[i])
      => \/ Strip(stack[i].dlg.text) = <<>>
         \/ Upper(Strip(stack[i].dlg.text)) = Upper(Strip(stack[i].expected))

\* C17: on every change of the scan input the gate becomes Matched if and
\* only if the trimmed, upper-cased input equals the trimmed, upper-cased
\* expected payload, and a blank input changes nothing but the text.
C17_MatchIffFoldedEqual ==
  [][\A i \in 1..Depth :
       (/\ i <= Len(stack')
        /\ stack[i].pc = "scan" /\ stack'[i].pc = "scan"
        /\ stack'[i].dlg.text # stack[i].dlg.text)
       => LET d == stack[i].dlg
              d2 == stack'[i].dlg
          IN /\ (d2.result = "Accepted" /\ d2.success)
                  <=> Upper(Strip(d2.text)) = Upper(Strip(stack[i].expected))
             /\ Strip(d2.text) = <<>> => d2 = [d EXCEPT !.text = d2.text]]_vars

\* a scan in lower case behind a blank was accepted
C17_Witness ==
  \E i \in 1..Depth :
    /\ stack[i].pc = "scan"
    /\ stack[i].dlg.result = "Accepted"
    /\ stack[i].dlg.success
    /\ stack[i].dlg.text = <<" ">> \o Lower(stack[i].expected)
    /\ stack[i].dlg.text # stack[i].expected
    /\ Lower(stack[i].expected) # stack[i].expected

C29_FrameSavedBeforeEnd ==
  \A i \in 1..Depth :
    (stack[i].pc = "done" /\ stack[i].frame) => stack[i].frame_saved

\* C36: PASS is sent only by a cycle that has stored its reading; a cycle
\* whose store failed after a matching scan has not sent PASS.
C36_PassOnlyAfterStore ==
  \A i \in 1..Depth :
    /\ (\E k \in 1..Len(stack[i].sent) : stack[i].sent[k] = "PASS")
         => /\ stack[i].stored = 1
            /\ stack[i].outcome = "Committed"
    /\ (stack[i].pc = "done" /\ stack[i].dlg.success /\ stack[i].stored = 0)
         => /\ \A k \in 1..Len(stack[i].sent) : stack[i].sent[k] # "PASS"
            /\ \A k \in 1..Len(stack[i].wire) : stack[i].wire[k] # "OK"

\* the store failed after a matching scan with the link up, and the cycle
\* has ended
C36_Witness ==
  \E i \in 1..Depth :
    /\ hw = "up"
    /\ stack[i].pc = "done"
    /\ stack[i].dlg.success
    /\ stack[i].stored = 0
    /\ stack[i].outcome \in {"StoreFailed", "Error"}

\* the result tokens among the tokens w written to the link
ResultsOnWire(w) == {k \in 1..Len(w) : w[k] \in {"OK", "FAIL", "NO_FRAME"}}

\* C37: a cycle calls send_HW_result at most once and puts at most one of
\* OK, FAIL, NO_FRAME on the link, on every path through the cycle, the
\* failed store and the handled exception included.
C37_AtMostOneResult ==
  \A i \in 1..Depth :
    /\ Len(stack[i].sent) <= 1
    /\ Cardinality(ResultsOnWire(stack[i].wire)) <= 1

\* with the link up a store failed after a matching scan and the cycle
\* has reported FAIL once
C37_Witness ==
  \E i \in 1..Depth :
    /\ hw = "up"
    /\ stack[i].pc = "done"
    /\ stack[i].outcome = "StoreFailed"
    /\ stack[i].sent = <<"FAIL">>
    /\ stack[i].wire = <<"FAIL", "DECLAMP">>

\* C39: a cycle sends a label to the printer and commits a serial only
\* when its reading has all four values and has passed the limit checks
\* against a part found in the parts table; no cycle prints for a reading
\* that was checked against no part.
C39_PrintOnlyIfValidated ==
  \A i \in 1..Depth :
    (stack[i].print_tried \/ stack[i].wrote)
      => /\ stack[i].missing = {}
         /\ stack[i].part_found
         /\ stack[i].part_used \in AllParts
         /\ stack[i].limits_failed = {}

\* the counter the state file f holds for the current month
StoredThisMonth(f) ==
  IF f.kind = "ok" /\ f.month = MonthToken(now) THEN f.serial ELSE 0

\* activations from position i of the stack upward that have committed
CommittedFrom(i) == {j \in i..Depth : stack[j].wrote}

\* C33: the accesses to the state file do not interleave, so no commit is
\* lost and no peek sees a half-applied update: while a cycle that has
\* committed is still active, the stored counter is at least the counter
\* it found at its start plus the number of commits made by it and by the
\* cycles nested in it, whatever part selections and nested cycles came
\* in between, and every serial peeked by a cycle nested in it lies above
\* the counter it found and is not above the stored counter.
C33_NoCommitLost ==
  \A i \in 1..Depth :
    stack[i].wrote
      => /\ file.kind = "ok"
         /\ file.month = MonthToken(now)
         /\ file.serial >= StoredThisMonth(stack[i].before)
                             + Cardinality(CommittedFrom(i))
         /\ \A j \in (i+1)..Depth :
              stack[j].serial # <<>>
                => \E n \in (StoredThisMonth(stack[i].before) + 1)..file.serial :
                     stack[j].serial = ZFill(Digits(n), 5)

\* a cycle nested in the scan dialog of a cycle that has committed has
\* committed as well, after a part selection made while the outer cycle
\* was processing events
C33_Witness ==
  /\ Depth = 2
  /\ stack[1].wrote
  /\ stack[2].wrote
  /\ stack[1].before.kind = "ok"
  /\ stack[1].before.last_part # file.last_part
  /\ file.serial = StoredThisMonth(stack[1].before) + 2

SeqFiles ==
  { AbsentFile,
    StateFile(MonthToken(0), 37, <<"X">>),
    StateFile(MonthToken(0), MaxInitSerial, P1),
    StateFile(MonthToken(1), 0, <<"X">>),
    StateFile(MonthToken(1), MaxInitSerial, Upper(P1)) }

\* part hints passed to the sequencer
SeqHints == {NoPart, P1, <<" ">> \o P2 \o <<" ">>}

SeqInit ==
  /\ variant = "main"
  /\ now = 1
  /\ file \in SeqFiles
  /\ current_part = NoPart
  /\ parts = AllParts
  /\ frameCached = FALSE
  /\ hw = "none"
  /\ started = 0
  /\ stack = <<>>
  /\ seq = NoCall
  /\ link = NoLine
  /\ roi = NoRoi
  /\ call = NoFn
  /\ cam = NoCam

\* the wall clock passes a month boundary
Tick ==
  /\ now < MaxMonth
  /\ now' = now + 1
  /\ UNCHANGED <<variant, link, roi, call, cam, seq, file, current_part, parts,
                 frameCached, hw, started, stack>>

\* a call of get_current_serial_and_part(hint)
SeqPeek(hint) ==
  /\ LET sp == GetCurrentSerialAndPart(file, MonthToken(now), hint)
     IN seq' = [seq EXCEPT !.op = "peek", !.prev = file, !.month = MonthToken(now),
                           !.serial = sp[1], !.part_code = sp[2],
                           !.hint = hint]
  /\ file' = PeekFile(file, MonthToken(now), hint)
  /\ UNCHANGED <<variant, link, roi, call, cam, now, current_part, parts,
                 frameCached, hw, started, stack>>

\* a call of increment_serial(part)
SeqCommit(part) ==
  /\ seq.commits < MaxCommits
  /\ file' = IncrementSerial(file, MonthToken(now), part)
  /\ seq' = [seq EXCEPT !.op = IF seq.op = "peek" /\ seq.month = MonthToken(now)
                                THEN "peek_commit" ELSE "commit",
                        !.prev = file, !.month = MonthToken(now),
                        !.commits = @ + 1,
                        !.committed = IF part # NoPart THEN Upper(Strip(part))
                                      ELSE <<>>,
                        !.since = IF part # NoPart THEN "commit" ELSE "none",
                        !.label = IF seq.op = "peek" /\ seq.month = MonthToken(now)
                                  THEN seq.serial ELSE <<>>,
                        !.label_month = MonthToken(now),
                        !.label_before =
                           IF seq.op = "peek" /\ seq.month = MonthToken(now)
                              /\ seq.label_month = MonthToken(now)
                           THEN seq.label ELSE <<>>]
  /\ UNCHANGED <<variant, link, roi, call, cam, now, current_part, parts,
                 frameCached, hw, started, stack>>

\* a call of on_part_selected with the combo text of part p
SeqSelect(p) ==
  /\ p # current_part
  /\ current_part' = p
  /\ file' = OnPartSelectedFile(file, MonthToken(now), p)
  /\ seq' = [seq EXCEPT !.op = "select", !.prev = file, !.month = MonthToken(now),
                        !.since = "none"]
  /\ UNCHANGED <<variant, link, roi, call, cam, now, parts, frameCached, hw, started, stack>>

\* the program is closed and started again: __init__ calls load_parts,
\* whose first addItem makes part_combo emit currentTextChanged, so
\* on_part_selected runs with the first part; load_last_part then reads
\* the state file that call has written
SeqRestart ==
  /\ seq.since = "commit"
  /\ current_part' = FirstPart(parts)
  /\ file' = OnPartSelectedFile(file, MonthToken(now), FirstPart(parts))
  /\ seq' = [seq EXCEPT !.op = "restart", !.prev = file, !.month = MonthToken(now),
                        !.since = "restart"]
  /\ UNCHANGED <<variant, link, roi, call, cam, now, parts, frameCached, hw, started, stack>>

SeqNext ==
  \/ Tick
  \/ SeqRestart
  \/ \E hint \in SeqHints : SeqPeek(hint)
  \/ \E part \in SeqHints : SeqCommit(part)
  \/ \E p \in AllParts : SeqSelect(p)

SpecSeq == SeqInit /\ [][SeqNext]_vars

\* ------------------------------------------------ the hardware read loop
\* "sub in s"
Contains(s, sub) ==
  \E i \in 1..(Len(s) - Len(sub) + 1) : SubSeq(s, i, i + Len(sub) - 1) = sub

\* the trigger token looked for by listen_HW
TriggerToken == <<"C","Y","C","L","E"," ","E","N","D">>

\* a byte that is not valid UTF-8
BadByte == "\\xff"

\* lines as HW_serial.readline() returns them, without the line end: the
\* trigger alone, inside other text, twice, in lower case, with two blanks,
\* cut short, other commands, nothing (read timeout), and with a byte
\* that is not valid UTF-8 before or after the token
HWLines ==
  { TriggerToken,
    <<"#", " ">> \o TriggerToken \o <<" ", "!">>,
    TriggerToken \o <<" ">> \o TriggerToken,
    Lower(TriggerToken),
    <<"C","Y","C","L","E"," "," ","E","N","D">>,
    <<"C","Y","C","L","E">>,
    <<"P","B","O","N">>,
    <<>>,
    <<BadByte>> \o TriggerToken,
    <<"P","B","O","N", BadByte>> }

\* bytes.decode(): the text, or a UnicodeDecodeError
Decode(bytes) ==
  IF \E i \in 1..Len(bytes) : bytes[i] = BadByte
  THEN [ok |-> FALSE, text |-> <<>>]
  ELSE [ok |-> TRUE, text |-> bytes]

\* the body of the read loop on one line: the number of
\* hw_capture_signal.emit() calls (an exception of decode is caught by
\* "except Exception" and the loop goes on)
EmitsFor(bytes) ==
  LET dec == Decode(bytes)
  IN IF ~dec.ok THEN 0
     ELSE IF Contains(Strip(dec.text), TriggerToken) THEN 1 ELSE 0

LinkInit ==
  /\ variant \in Variants
  /\ now = 1
  /\ file = AbsentFile
  /\ current_part = NoPart
  /\ parts = AllParts
  /\ frameCached = FALSE
  /\ hw \in {"up", "none"}
  /\ started = 0
  /\ stack = <<>>
  /\ seq = NoCall
  /\ link = [NoLine EXCEPT !.running = (hw = "up"),
                           !.HW_running = (hw = "up")]
  /\ roi = NoRoi
  /\ call = NoFn
  /\ cam = NoCam

\* listen_HW: the test "while self.HW_running"
ListenTest ==
  /\ link.running
  /\ link.pc = "top"
  /\ link.total < MaxLines
  /\ link' = IF link.HW_running THEN [link EXCEPT !.pc = "read"]
             ELSE [link EXCEPT !.running = FALSE]
  /\ UNCHANGED <<variant, file, now, current_part, parts,
                 frameCached, hw, started, stack, seq, roi, call, cam>>

\* listen_HW: the body of the while loop, reading the line bytes
ListenHW(bytes) ==
  /\ link.running
  /\ link.pc = "read"
  /\ ~link.closed
  /\ link' = [link EXCEPT !.line = bytes,
                          !.raised = EmitsFor(bytes),
                          !.total = @ + 1,
                          !.pending = @ + EmitsFor(bytes),
                          !.pc = "top"]
  /\ UNCHANGED <<variant, file, now, current_part, parts,
                 frameCached, hw, started, stack, seq, roi, call, cam>>

\* listen_HW: readline raises SerialException and the loop is left
LinkLost ==
  /\ link.running
  /\ link.pc = "read"
  /\ ~link.closed
  /\ link' = [link EXCEPT !.running = FALSE]
  /\ UNCHANGED <<variant, file, now, current_part, parts,
                 frameCached, hw, started, stack, seq, roi, call, cam>>

\* send_HW_result called from the GUI thread. HW_serial is what listen_HW
\* left: None when the port never opened, the open Serial object otherwise,
\* also after the read loop has ended. On a port whose read has failed a
\* write may raise as well (caught by send_HW_result) after "written"
\* tokens, or go through.
SendOnLink(result_type, written) ==
  LET tokens == SendHWResult(hw, result_type)
  IN /\ link.sends < MaxCycles
     /\ ~link.closing
     /\ written \in 0..Len(tokens)
     /\ link.running => written = Len(tokens)
     /\ link' = [link EXCEPT !.sends = @ + 1,
                             !.asked = result_type,
                             !.dead = ~link.running,
                             !.wire = SubSeq(tokens, 1, written)]
     /\ UNCHANGED <<variant, file, now, current_part, parts,
                    frameCached, hw, started, stack, seq, roi, call, cam>>

\* closeEvent: HW_running is cleared and the port closed at once; the
\* listen_HW thread is not joined (start_HW_thread keeps no handle on it)
CloseEvent ==
  /\ ~link.closing
  /\ link' = [link EXCEPT !.HW_running = FALSE,
                          !.closing = TRUE,
                          !.closed = (hw = "up")]
  /\ UNCHANGED <<variant, file, now, current_part, parts,
                 frameCached, hw, started, stack, seq, roi, call, cam>>

\* listen_HW: readline on the port closeEvent has closed; pyserial raises
\* PortNotOpenError, a SerialException, and the loop is left
ListenClosed ==
  /\ link.running
  /\ link.pc = "read"
  /\ link.closed
  /\ link' = [link EXCEPT !.stale = @ + 1, !.running = FALSE]
  /\ UNCHANGED <<variant, file, now, current_part, parts,
                 frameCached, hw, started, stack, seq, roi, call, cam>>

LinkNext ==
  \/ ListenTest
  \/ \E bytes \in HWLines : ListenHW(bytes)
  \/ LinkLost
  \/ CloseEvent
  \/ ListenClosed
  \/ \E result_type \in {"PASS", "FAIL", "NO_FRAME"} :
       \E written \in 0..2 : SendOnLink(result_type, written)

SpecLink == LinkInit /\ [][LinkNext]_vars

\* -------------------------------------------------------- the crops alone
RoiInit ==
  /\ variant = "main"
  /\ now = 1
  /\ file = AbsentFile
  /\ current_part = NoPart
  /\ parts = AllParts
  /\ frameCached = FALSE
  /\ hw = "none"
  /\ started = 0
  /\ stack = <<>>
  /\ seq = NoCall
  /\ link = NoLine
  /\ roi = NoRoi
  /\ call = NoFn
  /\ cam = NoCam

\* a call of CameraService.extract_roi
ExtractRoi(frame, x, y, w, h) ==
  /\ roi' = [fn |-> "extract_roi", frame |-> frame, x |-> x, y |-> y,
             w |-> w, h |-> h, out |-> extract_roi(frame, x, y, w, h)]
  /\ UNCHANGED <<variant, file, now, current_part, parts,
                 frameCached, hw, started, stack, seq, link, call, cam>>

\* one pass of the loop over roi_configs in extract_balance_readings
ExtractBalanceReadings(frame, x, y, w, h) ==
  /\ roi' = [fn |-> "extract_balance_readings", frame |-> frame,
             x |-> x, y |-> y, w |-> w, h |-> h,
             out |-> extract_balance_readings(frame, x, y, w, h)]
  /\ UNCHANGED <<variant, file, now, current_part, parts,
                 frameCached, hw, started, stack, seq, link, call, cam>>

\* one call in a behaviour: the functions keep nothing between calls
RoiNext ==
  /\ roi = NoRoi
  /\ \/ \E frame \in Frames : \E x, y, w, h \in Coords :
          ExtractRoi(frame, x, y, w, h)
     \/ \E frame \in Frames : \E x, y, w, h \in PadCoords :
          ExtractBalanceReadings(frame, x, y, w, h)

SpecRoi == RoiInit /\ [][RoiNext]_vars

\* --------------------------------------------------- claims on the crops

\* C20: whatever the frame size and the region asked for, a crop that is
\* made lies within the frame and has an area, and the only other result is
\* none: never an empty region.
C20_CropWithinFrameOrNone ==
  roi.fn # "none" =>
    \/ roi.out.kind = "none"
    \/ /\ roi.out.kind = "region"
       /\ 0 <= roi.out.x1 /\ roi.out.x1 < roi.out.x2
       /\ roi.out.x2 <= roi.frame.width
       /\ 0 <= roi.out.y1 /\ roi.out.y1 < roi.out.y2
       /\ roi.out.y2 <= roi.frame.height

\* ------------------------------------------------------ the camera alone
CamInit ==
  /\ variant = "main"
  /\ now = 1
  /\ file = AbsentFile
  /\ current_part = NoPart
  /\ parts = AllParts
  /\ frameCached = FALSE
  /\ hw = "none"
  /\ started = 0
  /\ stack = <<>>
  /\ seq = NoCall
  /\ link = NoLine
  /\ roi = NoRoi
  /\ call = NoFn
  /\ cam = NoCam

CamUnchanged ==
  UNCHANGED <<variant, file, now, current_part, parts, frameCached,
              hw, started, stack, seq, link, roi, call>>

\* CameraService.start_camera; opened is what cv2.VideoCapture gave:
\* "open", "closed" (isOpened() is False) or "raise"
StartCamera(opened) ==
  /\ Len(cam.threads) < MaxStarts
  /\ cam' =
       IF opened = "raise"
       THEN [cam EXCEPT !.ret = FALSE, !.op = "start"]
       ELSE IF opened = "closed"
       THEN [cam EXCEPT !.cap = "closed", !.ret = FALSE, !.op = "start"]
       ELSE [cam EXCEPT !.cap = "open",
                        !.devices = @ + 1,
                        !.is_running = TRUE,
                        !.threads = Append(@, NewThread),
                        !.stopped = FALSE,
                        !.ret = TRUE,
                        !.op = "start"]
  /\ CamUnchanged

\* CameraService.stop_camera. The join waits for the newest thread only and
\* gives up after two seconds: joined says whether that thread finished its
\* pass (writing a frame it had read) and left the loop in time; any other
\* thread may still be inside its loop when stop_camera returns
StopCamera(joined) ==
  LET n == Len(cam.threads)
      ends == joined /\ n > 0 /\ cam.threads[n].pc # "exited"
  IN /\ cam' = [cam EXCEPT
            !.is_running = FALSE,
            !.current_frame = IF ends /\ cam.threads[n].pc = "got"
                              THEN cam.reads ELSE @,
            !.threads = IF ends THEN [@ EXCEPT ![n].pc = "exited"] ELSE @,
            !.devices = IF cam.cap = "open" THEN @ - 1 ELSE @,
            !.cap = "none",
            !.stopped = TRUE,
            !.op = "stop"]
     /\ CamUnchanged

\* _capture_loop of thread t: the while test and self.cap.read();
\* acquired is "frame" (ret True), "noframe" (ret False) or "raise"
CaptureLoopRead(t, acquired) ==
  /\ t \in 1..Len(cam.threads)
  /\ cam.threads[t].pc = "top"
  /\ IF ~(cam.is_running /\ cam.cap = "open")
     THEN cam' = [cam EXCEPT !.threads[t].pc = "exited", !.op = "loop"]
     ELSE /\ cam.reads < MaxReads
          /\ cam' = [cam EXCEPT
               !.reads = @ + 1,
               !.op = "loop",
               !.threads[t] =
                 [pc |-> IF acquired = "frame" THEN "got"
                         ELSE IF acquired = "noframe" THEN "top"
                         ELSE "exited",
                  failed |-> @.failed \/ acquired # "frame",
                  after |-> IF @.failed THEN @.after + 1 ELSE @.after]]
  /\ CamUnchanged

\* _capture_loop of thread t: self.current_frame = frame_gray.copy()
CaptureLoopWrite(t) ==
  /\ t \in 1..Len(cam.threads)
  /\ cam.threads[t].pc = "got"
  /\ cam' = [cam EXCEPT !.current_frame = cam.reads,
                        !.op = "loop",
                        !.threads[t].pc = "top"]
  /\ CamUnchanged

\* CameraService.get_current_frame: 0 stands for None
GetCurrentFrame ==
  /\ cam' = [cam EXCEPT !.got = cam.current_frame, !.op = "get"]
  /\ CamUnchanged

CamNext ==
  \/ \E opened \in {"open", "closed", "raise"} : StartCamera(opened)
  \/ \E joined \in BOOLEAN : StopCamera(joined)
  \/ \E t \in 1..MaxStarts : \E acquired \in {"frame", "noframe", "raise"} :
       CaptureLoopRead(t, acquired)
  \/ \E t \in 1..MaxStarts : CaptureLoopWrite(t)
  \/ GetCurrentFrame

SpecCam == CamInit /\ [][CamNext]_vars

\* ---------------------------------------------------- claims on the camera

\* C23: a frame asked for after stop_camera has returned and the capture
\* loops have ended is none, also when a frame had been cached before.
C23_StoppedSourceGivesNone ==
  (cam.op = "get" /\ cam.stopped /\ LiveThreads(cam) = {}) => cam.got = 0

\* C24: while the source runs there is one capture loop and one opened
\* device, however often start_camera was called.
C24_OneLoopOneDevice ==
  /\ Cardinality(LiveThreads(cam)) <= 1
  /\ cam.devices <= 1

\* C25: a capture loop whose device read has failed once makes no further
\* read.
C25_LoopEndsOnFailedRead ==
  \A t \in 1..Len(cam.threads) : cam.threads[t].after = 0

\* -------------------------------------------- service functions alone
FnInit ==
  /\ variant = "main"
  /\ now = 1
  /\ file = AbsentFile
  /\ current_part = NoPart
  /\ parts = AllParts
  /\ frameCached = FALSE
  /\ hw = "none"
  /\ started = 0
  /\ stack = <<>>
  /\ seq = NoCall
  /\ link = NoLine
  /\ roi = NoRoi
  /\ call = NoFn
  /\ cam = NoCam

\* a call of OCRService._clean_numeric_text
CleanNumericText(text) ==
  /\ call' = [fn |-> "_clean_numeric_text", arg |-> text,
              out |-> clean_numeric_text(text)]
  /\ UNCHANGED <<variant, file, now, current_part, parts, frameCached,
                 hw, started, stack, seq, link, roi, cam>>

\* a call of OCRService.extract_numeric_value
ExtractNumericValue(region, engine, text, confidence) ==
  /\ call' = [fn |-> "extract_numeric_value",
              arg |-> [region |-> region, engine |-> engine,
                       text |-> text, confidence |-> confidence],
              out |-> extract_numeric_value(region, engine, text,
                                            confidence)]
  /\ UNCHANGED <<variant, file, now, current_part, parts, frameCached,
                 hw, started, stack, seq, link, roi, cam>>

\* the validation step of capture_reading in front end v
ValidateReading(v, r, lim) ==
  /\ call' = [fn |-> "validate",
              arg |-> [variant |-> v, r |-> r, lim |-> lim],
              out |-> Validate(v, r, lim)]
  /\ UNCHANGED <<variant, file, now, current_part, parts, frameCached,
                 hw, started, stack, seq, link, roi, cam>>

\* a call of print_zpl
PrintZplCall(queues, getqueues_ok, output_ok, file_ok) ==
  /\ call' = [fn |-> "print_zpl",
              arg |-> [queues |-> queues, getqueues_ok |-> getqueues_ok,
                       output_ok |-> output_ok, file_ok |-> file_ok],
              out |-> print_zpl(queues, getqueues_ok, output_ok, file_ok)]
  /\ UNCHANGED <<variant, file, now, current_part, parts, frameCached,
                 hw, started, stack, seq, link, roi, cam>>

\* a call of get_current_serial_and_part on a state file
PeekOnFile(content, hint) ==
  /\ call' = [fn |-> "get_current_serial_and_part",
              arg |-> [content |-> content, part |-> hint],
              out |-> PeekOn(content, MonthToken(now), hint)]
  /\ UNCHANGED <<variant, file, now, current_part, parts, frameCached,
                 hw, started, stack, seq, link, roi, cam>>

\* a call of increment_serial on a state file
CommitOnFile(content, part, write_ok) ==
  /\ call' = [fn |-> "increment_serial",
              arg |-> [content |-> content, part |-> part,
                       write_ok |-> write_ok],
              out |-> CommitOn(content, MonthToken(now), part, write_ok)]
  /\ UNCHANGED <<variant, file, now, current_part, parts, frameCached,
                 hw, started, stack, seq, link, roi, cam>>

\* one call in a behaviour: the functions keep nothing between calls
FnNext ==
  /\ call.fn = "none"
  /\ \/ \E text \in OcrTexts : CleanNumericText(text)
     \/ \E v \in {"main", "HW2"} : \E r \in [Slots -> Values] :
        \E lim \in [Slots -> BoundPairs] : ValidateReading(v, r, lim)
     \/ \E content \in Contents : \E hint \in SeqHints :
          PeekOnFile(content, hint)
     \/ \E content \in Contents : \E hint \in SeqHints :
        \E write_ok \in BOOLEAN : CommitOnFile(content, hint, write_ok)
     \/ \E queues \in QueueLists :
        \E getqueues_ok, output_ok, file_ok \in BOOLEAN :
          PrintZplCall(queues, getqueues_ok, output_ok, file_ok)
     \/ \E region \in {"none", "empty", "ok"} :
        \E engine \in {"raise", "noresult", "result"} :
        \E text \in OcrTexts : \E confidence \in Confidences :
          /\ engine # "result" => (text = <<>> /\ confidence = 0)
          /\ ExtractNumericValue(region, engine, text, confidence)

SpecFn == FnInit /\ [][FnNext]_vars

\* ------------------------------------------ claims on service functions

\* C21: cleaning a cleaned text changes nothing, and a cleaned text holds
\* only digits, '.' and '-', at most one '.', and at most one '-', which
\* is then its first character.
C21_CleanIdempotentAndWellFormed ==
  call.fn = "_clean_numeric_text" =>
    /\ clean_numeric_text(call.out) = call.out
    /\ \A i \in 1..Len(call.out) : call.out[i] \in NumericChars
    /\ Count(call.out, ".") <= 1
    /\ Count(call.out, "-") <= 1
    /\ \A i \in 1..Len(call.out) : call.out[i] = "-" => i = 1

\* a text with two dots and an interior '-' has been cleaned
C21_Witness ==
  /\ call.fn = "_clean_numeric_text"
  /\ call.arg = <<"7", "-", ".", ".">>
  /\ call.out = <<"7", ".">>

\* C26: a value is returned only for a readable region whose text, at a
\* confidence at or above the threshold, parses as a number; a text below
\* the threshold or one that does not parse gives none with the engine's
\* confidence; no region, an empty region or a failing engine gives none
\* with confidence 0.
C26_ValueOnlyIfConfidentAndNumeric ==
  call.fn = "extract_numeric_value" =>
    LET a == call.arg
        read == a.region = "ok" /\ a.engine = "result"
        good == /\ a.confidence >= OCR_CONFIDENCE_THRESHOLD
                /\ ParsesAsFloat(clean_numeric_text(a.text))
    IN /\ ~call.out.null => (read /\ good)
       /\ (read /\ ~good) =>
            (call.out.null /\ call.out.confidence = a.confidence)
       /\ (a.region # "ok" \/ a.engine = "raise") =>
            (call.out.null /\ call.out.confidence = 0)

\* a text read exactly at the threshold that parses has given a value
C26_Witness ==
  /\ call.fn = "extract_numeric_value"
  /\ call.arg.confidence = OCR_CONFIDENCE_THRESHOLD
  /\ call.arg.text = <<"-", "7", ".", "7">>
  /\ ~call.out.null
  /\ call.out.text = <<"-", "7", ".", "7">>

\* C27: a reading is valid exactly when its four values are present and
\* every checked value respects each bound that is present; the low and the
\* high side are reported each for itself, and the result is a function of
\* the reading and the limits alone.
C27_ValidIffPresentAndWithinBounds ==
  call.fn = "validate" =>
    LET r == call.arg.r
        lim == call.arg.lim
        checked == CheckedSlots(call.arg.variant)
        present == \A m \in Slots : r[m] # None
    IN /\ call.out.is_valid <=>
            /\ present
            /\ \A m \in checked :
                 /\ lim[m].min # None => r[m] >= lim[m].min
                 /\ lim[m].max # None => r[m] <= lim[m].max
       /\ present => \A m \in checked :
            /\ <<m, "too low">> \in call.out.limits_failed
                 <=> (lim[m].min # None /\ r[m] < lim[m].min)
            /\ <<m, "too high">> \in call.out.limits_failed
                 <=> (lim[m].max # None /\ r[m] > lim[m].max)
       /\ call.out = Validate(call.arg.variant, r, lim)

\* a reading found valid with a slot that has no lower bound and a value
\* on its upper bound
C27_Witness ==
  /\ call.fn = "validate"
  /\ call.arg.variant = "HW2"
  /\ call.out.is_valid
  /\ call.arg.lim["weight1"] = [min |-> None, max |-> 2]
  /\ call.arg.r["weight1"] = 2

C30_FailedPrintLeavesFallbackFile ==
  call.fn = "print_zpl" =>
    LET a == call.arg
    IN /\ (~call.out.printed /\ a.file_ok) => call.out.fallback_file
       /\ (/\ a.getqueues_ok
           /\ a.queues # <<>>
           /\ \A i \in 1..Len(a.queues) : a.queues[i] # PRINTER_NAME)
            => (call.out.queue = a.queues[1] /\ call.out.attempted)

\* C31: whatever the state file holds, a peek and a commit return rather
\* than raise; with no file or an unreadable one they work from the fresh
\* state (this month, serial 0); a state write that fails is reported and
\* the commit still returns.
C31_BadStateFileIsFreshStart ==
  /\ call.fn = "get_current_serial_and_part" =>
       /\ ~call.out.raised
       /\ call.arg.content.kind # "json" =>
            call.out.serial = <<"0", "0", "0", "0", "0">>
  /\ call.fn = "increment_serial" =>
       /\ ~call.out.raised
       /\ (call.arg.content.kind # "json" /\ call.arg.write_ok) =>
            call.out.content.serial = JInt(1)
       /\ ~call.arg.write_ok =>
            (call.out.reported /\ call.out.content = call.arg.content)

\* ------------------------------------------------- claims on the read loop

\* C18: while the read loop runs, a line read that contains CYCLE END has
\* raised exactly one capture request and a line without it has raised none.
C18_OneEventPerTriggerLine ==
  link.total > 0
    => link.raised = IF Contains(link.line, TriggerToken) THEN 1 ELSE 0

\* C22: once the read loop has ended on a lost connection, or when the port
\* never opened, a result sent puts no token on the serial line.
C22_NoTokenOnDeadLink ==
  (link.sends > 0 /\ link.dead) => link.wire = <<>>

\* C32: the read loop makes no read on the serial port after shutdown has
\* released it.
C32_NoReadOnReleasedPort ==
  link.stale = 0

\* ------------------------------------------------ claims on the sequencer

\* C34: after a commit made for part code P, a peek with an empty hint
\* returns P, trimmed and in upper case, as the part code, also when the
\* program has been restarted in between.
C34_EmptyHintResumesCommittedPart ==
  (seq.op = "peek" /\ seq.hint = NoPart /\ seq.since \in {"commit", "restart"})
    => seq.part_code = seq.committed

\* the number a five-digit serial stands for
SerialValue(serial) == CHOOSE n \in 0..99 : ZFill(Digits(n), 5) = serial

\* C35: within one month the serials of consecutive printed labels are
\* strictly increasing, also for the first two labels after a month
\* rollover and the first two labels from a fresh state.
C35_LabelSerialsIncrease ==
  (seq.label # <<>> /\ seq.label_before # <<>>)
    => SerialValue(seq.label_before) < SerialValue(seq.label)

\* C38: a part selection changes only last_part of the stored state: the
\* month token and the counter that _load_state gives are the same after
\* the selection as before it, also when the stored month is older than
\* the current month, and last_part is the selected part code.
C38_SelectionKeepsMonthAndSerial ==
  seq.op \in {"select", "restart"}
    => /\ file.kind = "ok"
       /\ file.month = LoadState(seq.prev, seq.month).month
       /\ file.serial = LoadState(seq.prev, seq.month).serial
       /\ file.last_part = current_part

\* a part is selected in February while the state file holds January
\* and counter 37
C38_Witness ==
  /\ seq.op = "select"
  /\ seq.prev = StateFile(MonthToken(0), 37, <<"X">>)
  /\ seq.month = MonthToken(1)
  /\ file = StateFile(MonthToken(0), 37, P2)

\* C8: a peek made when the month stored in the state file is not the
\* current month returns the serial "00001", whatever counter is stored.
C8_RolloverPeekIsOne ==
  (seq.op = "peek" /\ seq.prev.kind = "ok" /\ seq.prev.month # seq.month)
    => seq.serial = <<"0", "0", "0", "0", "1">>

\* the file of January holds 37, the peek is made in February
C8_Witness ==
  /\ seq.op = "peek"
  /\ seq.prev = StateFile(MonthToken(0), 37, <<"X">>)
  /\ seq.month = MonthToken(1)
  /\ seq.serial = <<"0", "0", "0", "0", "1">>

\* C9: a commit made in the month M the state file holds stores the
\* counter plus one and month M, and after a peek in M that is the
\* successor of the peeked serial; a commit made when the stored month is
\* not the current month stores counter 1 and the current month.
C9_CommitStoresSuccessor ==
  (seq.op \in {"commit", "peek_commit"} /\ seq.prev.kind = "ok")
    => /\ file.kind = "ok"
       /\ file.month = seq.month
       /\ IF seq.prev.month = seq.month
          THEN /\ file.serial = seq.prev.serial + 1
               /\ seq.op = "peek_commit"
                    => seq.serial = ZFill(Digits(file.serial - 1), 5)
          ELSE file.serial = 1

\* a peek and then a commit within the month of the file
C9_Witness ==
  /\ seq.op = "peek_commit"
  /\ seq.prev.kind = "ok"
  /\ seq.prev.month = seq.month
  /\ seq.prev.serial = MaxInitSerial
  /\ file.serial = MaxInitSerial + 1

\* C10: over every step of peeks, commits, part selections and month
\* advances the stored counter does not decrease while the stored month
\* token stays the same, and is 1 when the stored month token has changed.
C10_SerialMonotoneWithinMonth ==
  [][file.kind = "ok"
       => /\ file'.kind = "ok"
          /\ file'.month = file.month => file'.serial >= file.serial
          /\ file'.month # file.month => file'.serial = 1]_vars

\* a commit changed the stored month token and reset the counter from 37
C10_Witness ==
  /\ seq.op \in {"commit", "peek_commit"}
  /\ seq.prev.kind = "ok"
  /\ seq.prev.serial = 37
  /\ file.month # seq.prev.month
  /\ file.serial = 1

====
